---- MODULE Spec2Model ----
(***************************************************************************)
(* A model of sql_schema_exporter: the two orchestrators generate_lineage  *)
(* (lineage.py) and export_schema (core.py), with the database driver, the *)
(* file system and the graph renderer as nondeterministic collaborators.   *)
(* One behaviour is one call of one orchestrator on a fresh output         *)
(* directory; each action is one statement (or one callee) of the source.  *)
(* SpecGraph, SpecSanitize and SpecConnect follow create_lineage_graph,    *)
(* sanitize_for_filename and the connection string of get_db_connection on *)
(* their own, on the data the orchestrators' model keeps abstract.         *)
(* SpecRelease follows main of the release script pypiteleport.py.         *)
(***************************************************************************)
EXTENDS Naturals, Sequences, FiniteSets, TLC

VARIABLES
    prog,                  \* which orchestrator was called: "none", "lineage", "export"
    pc,                    \* position of the call
    database,              \* the database argument, a sequence of characters
    skip_render,           \* the skip_render argument of generate_lineage
    conn,                  \* local conn: "None", or the connection's state "open"/"closed"
    exc,                   \* the exception in flight (NoExc when none)
    dependencies,          \* rows returned by fetch_dependencies
    dependencies_fetched,  \* local of generate_lineage
    dot_file_created,      \* local of generate_lineage
    render_error_message,  \* local of generate_lineage (None or a message)
    pending,               \* what the finally block resumes: "fall", "return", "raise"
    lin_ret,               \* the triple generate_lineage returned (NoRet before)
    exp_ret,               \* what export_schema returned: "unset", "True", "False", "None"
    fs,                    \* the file system: path -> content
    stages,                \* history: the stages the lineage run passed through
    render_invoked,        \* history: dot_graph.render was called
    graphviz_found,        \* environment: the Graphviz executable is installed
    cat,                   \* export_schema: index of the category being processed
    objects,               \* fetch_objects/fetch_tables: the rows fetched
    idx,                   \* save_definitions: index of the next item
    catlog,                \* history: per category, how its fetch-and-save ended
    failures,              \* history: the (step, exception) pairs raised so far
    nodes,                 \* create_lineage_graph: the set of node keys already added
    dot,                   \* create_lineage_graph: the body of the Digraph, in order
    dep_idx,               \* create_lineage_graph: index of the next row of the loop
    run,                   \* how many times the build-and-save has been started
    first_source,          \* history: the file content the first run left
    raw_name,              \* sanitize_for_filename: the argument
    safe_name,             \* sanitize_for_filename: the value returned
    server,                \* get_db_connection: argument
    username,              \* get_db_connection: argument (None or text)
    password,              \* get_db_connection: argument (None or text)
    conn_str,              \* get_db_connection: the list of key=value parts
    connection_string,     \* get_db_connection: the joined string
    status_stdout,         \* pypiteleport.main: what git status --porcelain printed
    current_version,       \* pypiteleport.main: the version read from pyproject.toml
    suggested_version,     \* pypiteleport.main: the suggestion (None when there is none)
    new_version,           \* pypiteleport.main: the version chosen
    confirm,               \* pypiteleport.main: the lowered answer to the confirmation
    pyproject,             \* the version text pyproject.toml holds
    mutations,             \* history: the mutating steps run so far and how each ended
    exit_code              \* the exit code of the process once pc = "exited"

vars == <<prog, pc, database, skip_render, conn, exc, dependencies,
          dependencies_fetched, dot_file_created, render_error_message, pending,
          lin_ret, exp_ret, fs, stages, render_invoked, graphviz_found, cat, objects,
          idx, catlog, failures, nodes, dot, dep_idx, run, first_source, raw_name,
          safe_name, server, username, password, conn_str, connection_string,
          status_stdout, current_version, suggested_version, new_version, confirm,
          pyproject, mutations, exit_code>>

lineageVars == <<dependencies, dependencies_fetched, dot_file_created,
                 render_error_message, lin_ret, stages, render_invoked, skip_render>>
exportVars == <<exp_ret, cat, objects, idx, catlog>>
graphVars == <<nodes, dot, dep_idx, run, first_source>>
sanitizeVars == <<raw_name, safe_name>>
connectVars == <<server, username, password, conn_str, connection_string>>
releaseVars == <<status_stdout, current_version, suggested_version, new_version,
                 confirm, pyproject, mutations, exit_code>>
unitVars == <<graphVars, sanitizeVars, connectVars, releaseVars>>

(***************************************************************************)
(* Bounds of the model.                                                    *)
(***************************************************************************)
MaxDeps == 2    \* longest dependency list the catalog query returns
MaxObjs == 2    \* longest object list a schema-export query returns
MaxNameLen == 4 \* longest generated argument of sanitize_for_filename
MaxRows == 2    \* longest dependency list given to create_lineage_graph

(***************************************************************************)
(* Values.                                                                 *)
(***************************************************************************)
None == <<>>             \* Python's None where a message may stand
NoExc == <<>>            \* no exception in flight
NoRet == <<>>            \* generate_lineage has not returned

Exception(type, msg) == <<type, msg>>
TypeOf(e) == e[1]
StrOf(e) == e[2]

\* The exception classes the code names or the collaborators raise, each with
\* its base classes (Python's hierarchy; graphviz's ExecutableNotFound is a
\* RuntimeError, IOError is OSError).
Bases(type) ==
    CASE type = "pyodbc.Error" -> {"pyodbc.Error", "Exception"}
      [] type = "ConnectionError" -> {"ConnectionError", "OSError", "Exception"}
      [] type = "PermissionError" -> {"PermissionError", "OSError", "Exception"}
      [] type = "RuntimeError" -> {"RuntimeError", "Exception"}
      [] type = "ExecutableNotFound" -> {"ExecutableNotFound", "RuntimeError", "Exception"}
      [] type = "CalledProcessError" -> {"CalledProcessError", "Exception"}
      [] type = "ValueError" -> {"ValueError", "Exception"}
      [] type = "TypeError" -> {"TypeError", "Exception"}
      [] type = "FileNotFoundError" -> {"FileNotFoundError", "OSError", "Exception"}
      [] type = "SystemExit" -> {"SystemExit", "BaseException"}

isinstance(e, classes) == Bases(TypeOf(e)) \cap classes # {}

\* str.isalnum on the characters the names are drawn from
isalnum(c) == c \in {"a", "b"}

\* The database names a call may be given.
Databases == {<<"a", "b">>, <<"a", " ">>}

\* The rows the dependency query may return (their columns are not read here).
DepRows == {"dep1", "dep2"}
DepLists == UNION {[1..n -> DepRows] : n \in 0..MaxDeps}

output_dir == <<<<"out">>>>
Join(dir, name) == Append(dir, name)

\* lineage.py:141-143
sanitized_db_name(db) == [i \in 1..Len(db) |-> IF isalnum(db[i]) \/ db[i] = "_" THEN db[i] ELSE "_"]
dot_filename(db) == Join(output_dir, sanitized_db_name(db) \o <<"_lineage", ".gv">>)
\* graphviz renders <filename>.<format>
png_filename(db) == Join(output_dir, sanitized_db_name(db) \o <<"_lineage", ".gv", ".png">>)

exists(path) == path \in DOMAIN fs
WriteFile(path, content) == [p \in DOMAIN fs \cup {path} |-> IF p = path THEN content ELSE fs[p]]
\* Path.mkdir(parents=True, exist_ok=True)
Mkdir(path) == IF exists(path) THEN fs ELSE WriteFile(path, "dir")

\* "fetch dependencies" in str(e): the message fragments that hold the words.
ContainsFetchDependencies(msg) ==
    \E i \in 1..Len(msg) : msg[i] = "Failed to fetch dependencies: "

DriverText == <<"driver error text">>
OsText == <<"os error text">>

(***************************************************************************)
(* sanitize_for_filename (cli.py:12-21, and its copy in the test steps,    *)
(* sql_schema_exporter_steps.py:9-18) on a name given as a sequence of     *)
(* characters                                                              *)
(***************************************************************************)
\* whitespace, for str.strip() and for \s
isspace(c) == c \in {" ", "\t", "\n"}
\* the character class [\\/*?:"<>|\s]
InvalidChar(c) == c \in {"\\", "/", "*", "?", ":", "\"", "<", ">", "|"} \/ isspace(c)

\* name.strip() (line 15)
RECURSIVE name_lstrip(_)
name_lstrip(s) == IF s # <<>> /\ isspace(Head(s)) THEN name_lstrip(Tail(s)) ELSE s
RECURSIVE name_rstrip(_)
name_rstrip(s) ==
    IF s # <<>> /\ isspace(s[Len(s)]) THEN name_rstrip(SubSeq(s, 1, Len(s) - 1)) ELSE s
name_strip(s) == name_rstrip(name_lstrip(s))

\* what is left of s after the run of invalid characters it starts with
RECURSIVE skip_invalid(_)
skip_invalid(s) == IF s # <<>> /\ InvalidChar(Head(s)) THEN skip_invalid(Tail(s)) ELSE s

\* re.sub(r'[\\/*?:"<>|\s]+', '_', name) (line 17): a left-to-right scan, each
\* match the longest run at its place
\* Mutant: the pattern without its + quantifier, every invalid character
\* replaced on its own.
re_sub_invalid_each(s) == [i \in 1..Len(s) |-> IF InvalidChar(s[i]) THEN "_" ELSE s[i]]

RECURSIVE re_sub_invalid(_)
re_sub_invalid(s) ==
    IF s = <<>> THEN <<>>
    ELSE IF InvalidChar(Head(s))
         THEN <<"_">> \o re_sub_invalid(skip_invalid(Tail(s)))
         ELSE <<Head(s)>> \o re_sub_invalid(Tail(s))

\* lines 12-21
sanitize_for_filename(name) ==
    LET replaced == re_sub_invalid(name_strip(name))
    IN  IF replaced = <<>> THEN <<"_">> ELSE replaced

\* a step raises e: the exception is in flight and control leaves the step
Raise(step, e) ==
    /\ exc' = e
    /\ failures' = Append(failures, <<step, e>>)

Init ==
    /\ prog = "none"
    /\ pc = "idle"
    /\ database \in Databases
    /\ skip_render = FALSE
    /\ conn = "None"
    /\ exc = NoExc
    /\ dependencies = <<>>
    /\ dependencies_fetched = FALSE
    /\ dot_file_created = FALSE
    /\ render_error_message = None
    /\ pending = "fall"
    /\ lin_ret = NoRet
    /\ exp_ret = "unset"
    /\ fs = <<>>
    /\ stages = <<>>
    /\ render_invoked = FALSE
    /\ graphviz_found \in BOOLEAN
    /\ cat = 0
    /\ objects = <<>>
    /\ idx = 0
    /\ catlog = <<>>
    /\ failures = <<>>
    /\ nodes = {}
    /\ dot = <<>>
    /\ dep_idx = 0
    /\ run = 0
    /\ first_source = None
    /\ raw_name = <<>>
    /\ safe_name = None
    /\ server = <<>>
    /\ username = <<"NoneType">>
    /\ password = <<"NoneType">>
    /\ conn_str = <<>>
    /\ connection_string = None
    /\ status_stdout = <<>>
    /\ current_version = None
    /\ suggested_version = None
    /\ new_version = None
    /\ confirm = <<>>
    /\ pyproject = <<>>
    /\ mutations = <<>>
    /\ exit_code = 0

(***************************************************************************)
(* get_db_connection (core.py:10-39): pyodbc.connect either returns a      *)
(* connection or raises pyodbc.Error, which is re-raised as                *)
(* ConnectionError.  Used by both orchestrators.                           *)
(***************************************************************************)
\* Mutant: a failed connect is logged and answered with None instead of
\* raising ConnectionError (the alternative the comment of line 38 names).
get_db_connection_returns_none(next) ==
    \E ok \in BOOLEAN :
        IF ok
        THEN /\ conn' = "open"
             /\ pc' = next
             /\ UNCHANGED <<exc, failures>>
        ELSE /\ conn' = "None"
             /\ failures' = Append(failures, <<"connect", Exception("pyodbc.Error", DriverText)>>)
             /\ pc' = next
             /\ UNCHANGED exc

get_db_connection(next) ==
    \E ok \in BOOLEAN :
        IF ok
        THEN /\ conn' = "open"
             /\ pc' = next
             /\ UNCHANGED <<exc, failures>>
        ELSE /\ conn' = conn
             /\ Raise("connect", Exception("ConnectionError", <<"Database connection failed: ">> \o DriverText))
             /\ pc' = "except"

(***************************************************************************)
(* generate_lineage (lineage.py:118-188)                                   *)
(***************************************************************************)
\* the call: lines 118-123
generate_lineage_call ==
    /\ UNCHANGED failures
    /\ pc = "idle"
    /\ prog' = "lineage"
    /\ \E s \in BOOLEAN : skip_render' = s
    /\ conn' = "None"
    /\ dependencies_fetched' = FALSE
    /\ dot_file_created' = FALSE
    /\ render_error_message' = None
    /\ pc' = "L_connect"
    /\ UNCHANGED <<database, graphviz_found, exc, dependencies, pending, lin_ret,
                   fs, stages, render_invoked>>
    /\ UNCHANGED <<exportVars, unitVars>>

\* Mutant: the output directory is created right after connecting, before
\* the dependencies are fetched.
generate_lineage_connect_mkdir_first ==
    /\ prog = "lineage" /\ pc = "L_connect"
    /\ get_db_connection("L_fetch")
    /\ stages' = IF conn' = "open" THEN Append(stages, "Connected") ELSE stages
    /\ fs' = IF conn' = "open" THEN Mkdir(output_dir) ELSE fs
    /\ UNCHANGED <<prog, database, graphviz_found, skip_render, dependencies,
                   dependencies_fetched, dot_file_created, render_error_message,
                   pending, lin_ret, render_invoked>>
    /\ UNCHANGED <<exportVars, unitVars>>

\* line 126
generate_lineage_connect ==
    /\ prog = "lineage" /\ pc = "L_connect"
    /\ get_db_connection("L_fetch")
    /\ stages' = IF conn' = "open" THEN Append(stages, "Connected") ELSE stages
    /\ UNCHANGED <<prog, database, graphviz_found, skip_render, dependencies, dependencies_fetched,
                   dot_file_created, render_error_message, pending, lin_ret, fs,
                   render_invoked>>
    /\ UNCHANGED <<exportVars, unitVars>>

\* fetch_dependencies (lines 19-65), called at line 127, and line 128.
\* conn.cursor() (line 21, outside the try) may raise pyodbc.Error as it is;
\* execute/fetchall raising pyodbc.Error is re-raised as RuntimeError (line 62).
fetch_dependencies ==
    /\ prog = "lineage" /\ pc = "L_fetch"
    /\ \E outcome \in {"rows", "cursor_error", "query_error"} :
        CASE outcome = "rows" ->
                /\ \E rows \in DepLists : dependencies' = rows
                /\ dependencies_fetched' = TRUE
                /\ stages' = Append(stages, "DependenciesFetched")
                /\ pc' = "L_check"
                /\ UNCHANGED <<exc, failures>>
          [] outcome = "cursor_error" ->
                /\ Raise("fetch", Exception("pyodbc.Error", DriverText))
                /\ pc' = "except"
                /\ UNCHANGED <<dependencies, dependencies_fetched, stages>>
          [] outcome = "query_error" ->
                /\ Raise("fetch", Exception("RuntimeError", <<"Failed to fetch dependencies: ">> \o DriverText))
                /\ pc' = "except"
                /\ UNCHANGED <<dependencies, dependencies_fetched, stages>>
    /\ UNCHANGED <<prog, database, graphviz_found, skip_render, conn, dot_file_created,
                   render_error_message, pending, lin_ret, fs, render_invoked>>
    /\ UNCHANGED <<exportVars, unitVars>>

\* Mutant: the early return on an empty dependency list is missing.
generate_lineage_check_no_early_return ==
    /\ UNCHANGED failures
    /\ prog = "lineage" /\ pc = "L_check"
    /\ pc' = "L_build"
    /\ UNCHANGED <<lin_ret, pending>>
    /\ UNCHANGED <<prog, database, graphviz_found, skip_render, conn, exc,
                   dependencies, dependencies_fetched, dot_file_created,
                   render_error_message, fs, stages, render_invoked>>
    /\ UNCHANGED <<exportVars, unitVars>>

\* lines 130-132: the early return on an empty list (the triple is evaluated
\* here, the finally block runs before the caller gets it)
generate_lineage_check ==
    /\ UNCHANGED failures
    /\ prog = "lineage" /\ pc = "L_check"
    /\ IF dependencies = <<>>
       THEN /\ lin_ret' = <<dependencies_fetched, dot_file_created, render_error_message>>
            /\ pending' = "return"
            /\ pc' = "finally"
       ELSE /\ pc' = "L_build"
            /\ UNCHANGED <<lin_ret, pending>>
    /\ UNCHANGED <<prog, database, graphviz_found, skip_render, conn, exc, dependencies,
                   dependencies_fetched, dot_file_created, render_error_message, fs,
                   stages, render_invoked>>
    /\ UNCHANGED <<exportVars, unitVars>>

\* line 135: create_lineage_graph; it raises only on malformed rows
create_lineage_graph_step ==
    /\ prog = "lineage" /\ pc = "L_build"
    /\ \E ok \in BOOLEAN :
        IF ok
        THEN /\ stages' = Append(stages, "GraphBuilt")
             /\ pc' = "L_mkdir"
             /\ UNCHANGED <<exc, failures>>
        ELSE /\ Raise("build", Exception("ValueError", <<"not enough values to unpack">>))
             /\ pc' = "except"
             /\ stages' = stages
    /\ UNCHANGED <<prog, database, graphviz_found, skip_render, conn, dependencies,
                   dependencies_fetched, dot_file_created, render_error_message,
                   pending, lin_ret, fs, render_invoked>>
    /\ UNCHANGED <<exportVars, unitVars>>

\* lines 138-139
generate_lineage_mkdir ==
    /\ prog = "lineage" /\ pc = "L_mkdir"
    /\ \E ok \in BOOLEAN :
        IF ok
        THEN /\ fs' = Mkdir(output_dir)
             /\ pc' = "L_save"
             /\ UNCHANGED <<exc, failures>>
        ELSE /\ Raise("mkdir", Exception("PermissionError", OsText))
             /\ pc' = "except"
             /\ fs' = fs
    /\ UNCHANGED <<prog, database, graphviz_found, skip_render, conn, dependencies,
                   dependencies_fetched, dot_file_created, render_error_message,
                   pending, lin_ret, stages, render_invoked>>
    /\ UNCHANGED <<exportVars, unitVars>>

\* Mutant: a failed save is logged and the run continues to the render step
\* (the alternative the comment of line 152 names).
generate_lineage_save_continue ==
    /\ prog = "lineage" /\ pc = "L_save"
    /\ \E ok \in BOOLEAN :
        IF ok
        THEN /\ fs' = WriteFile(dot_filename(database), "dot source")
             /\ dot_file_created' = TRUE
             /\ stages' = Append(stages, "DescriptionWritten")
             /\ UNCHANGED failures
        ELSE /\ \E partial \in BOOLEAN :
                   fs' = IF partial THEN WriteFile(dot_filename(database), "") ELSE fs
             /\ failures' = Append(failures, <<"save", Exception("IOError", OsText)>>)
             /\ UNCHANGED <<dot_file_created, stages>>
    /\ pc' = "L_render"
    /\ UNCHANGED <<prog, database, graphviz_found, skip_render, conn, exc, dependencies,
                   dependencies_fetched, render_error_message, pending, lin_ret,
                   render_invoked>>
    /\ UNCHANGED <<exportVars, unitVars>>

\* lines 146-154: save the DOT file; IOError is re-raised as RuntimeError.
\* A failed write may already have created the file.
generate_lineage_save ==
    /\ prog = "lineage" /\ pc = "L_save"
    /\ \E ok \in BOOLEAN :
        IF ok
        THEN /\ fs' = WriteFile(dot_filename(database), "dot source")
             /\ dot_file_created' = TRUE
             /\ stages' = Append(stages, "DescriptionWritten")
             /\ pc' = "L_render"
             /\ UNCHANGED <<exc, failures>>
        ELSE /\ \E partial \in BOOLEAN :
                   fs' = IF partial THEN WriteFile(dot_filename(database), "") ELSE fs
             /\ Raise("save", Exception("RuntimeError", <<"Failed to save DOT file: ">> \o OsText))
             /\ pc' = "except"
             /\ UNCHANGED <<dot_file_created, stages>>
    /\ UNCHANGED <<prog, database, graphviz_found, skip_render, conn, dependencies,
                   dependencies_fetched, render_error_message, pending, lin_ret,
                   render_invoked>>
    /\ UNCHANGED <<exportVars, unitVars>>

\* Mutant: only ExecutableNotFound is handled (the handler of line 168 is
\* missing), so any other exception leaves the inner try.
generate_lineage_render_except_only_not_found(step, e) ==
    /\ failures' = Append(failures, <<step, e>>)
    /\ IF isinstance(e, {"ExecutableNotFound"})
       THEN /\ render_error_message' =
                 <<"Graphviz executable not found. Cannot render graph. Please install Graphviz. Error: ">> \o StrOf(e)
            /\ stages' = Append(stages, "RenderFailed")
            /\ exc' = NoExc
            /\ pc' = "L_end"
       ELSE /\ exc' = e
            /\ pc' = "except"
            /\ UNCHANGED <<render_error_message, stages>>

\* lines 165-170: the handlers of the try around render and re-save; every
\* exception the collaborators raise is an Exception, so none passes them
generate_lineage_render_except(step, e) ==
    /\ failures' = Append(failures, <<step, e>>)
    /\ render_error_message' =
          IF isinstance(e, {"ExecutableNotFound"})
          THEN <<"Graphviz executable not found. Cannot render graph. Please install Graphviz. Error: ">> \o StrOf(e)
          ELSE <<"An error occurred during graph rendering: ">> \o StrOf(e)
    /\ stages' = Append(stages, "RenderFailed")
    /\ exc' = NoExc
    /\ pc' = "L_end"

\* The failures dot_graph.render may end in, other than a missing executable:
\* the layout program exits non-zero, or the source file cannot be written.
RenderFailures ==
    {Exception("CalledProcessError", <<"dot returned non-zero exit status 1">>),
     Exception("PermissionError", OsText)}

\* Mutant: the render step without the test of skip_render.
generate_lineage_render_ignores_skip_render ==
    /\ prog = "lineage" /\ pc = "L_render"
    /\ render_invoked' = TRUE
    /\ \E outcome \in (IF graphviz_found THEN {"rendered", "failed"} ELSE {"not_found"}) :
        CASE outcome = "rendered" ->
                /\ \E removed \in BOOLEAN :
                     fs' = [p \in (DOMAIN fs \cup {png_filename(database)})
                                  \ (IF removed THEN {dot_filename(database)} ELSE {}) |->
                              IF p = png_filename(database) THEN "png image" ELSE fs[p]]
                /\ stages' = Append(stages, "Rendered")
                /\ pc' = "L_resave"
                /\ UNCHANGED <<exc, render_error_message, failures>>
          [] outcome = "not_found" ->
                /\ generate_lineage_render_except("render",
                       Exception("ExecutableNotFound", <<"failed to execute 'dot'">>))
                /\ fs' = fs
          [] outcome = "failed" ->
                /\ \E e \in RenderFailures : generate_lineage_render_except("render", e)
                /\ fs' = fs
    /\ UNCHANGED <<prog, database, graphviz_found, skip_render, conn, dependencies,
                   dependencies_fetched, dot_file_created, pending, lin_ret>>
    /\ UNCHANGED <<exportVars, unitVars>>

\* lines 157-160: the render step.  graphviz writes the source file, runs the
\* executable and, with cleanup=True, deletes the source file afterwards; a
\* failure leaves the source file in place and no image.
generate_lineage_render ==
    /\ prog = "lineage" /\ pc = "L_render"
    /\ IF skip_render
       THEN /\ pc' = "L_end"
            /\ UNCHANGED <<fs, exc, render_error_message, stages, render_invoked,
                           failures>>
       ELSE /\ render_invoked' = TRUE
            /\ \E outcome \in (IF graphviz_found THEN {"rendered", "failed"} ELSE {"not_found"}) :
                CASE outcome = "rendered" ->
                        /\ \E removed \in BOOLEAN :
                             fs' = [p \in (DOMAIN fs \cup {png_filename(database)})
                                          \ (IF removed THEN {dot_filename(database)} ELSE {}) |->
                                      IF p = png_filename(database) THEN "png image" ELSE fs[p]]
                        /\ stages' = Append(stages, "Rendered")
                        /\ pc' = "L_resave"
                        /\ UNCHANGED <<exc, render_error_message, failures>>
                  [] outcome = "not_found" ->
                        /\ generate_lineage_render_except("render",
                               Exception("ExecutableNotFound", <<"failed to execute 'dot'">>))
                        /\ fs' = fs
                  [] outcome = "failed" ->
                        /\ \E e \in RenderFailures : generate_lineage_render_except("render", e)
                        /\ fs' = fs
    /\ UNCHANGED <<prog, database, graphviz_found, skip_render, conn, dependencies,
                   dependencies_fetched, dot_file_created, pending, lin_ret>>
    /\ UNCHANGED <<exportVars, unitVars>>

\* lines 161-164: re-save the DOT file if the render's cleanup removed it; a
\* failing save is caught by the handler of line 168
generate_lineage_resave ==
    /\ prog = "lineage" /\ pc = "L_resave"
    /\ IF ~exists(dot_filename(database))
       THEN \E ok \in BOOLEAN :
               IF ok
               THEN /\ fs' = WriteFile(dot_filename(database), "dot source")
                    /\ pc' = "L_end"
                    /\ UNCHANGED <<exc, render_error_message, stages, failures>>
               ELSE /\ generate_lineage_render_except("resave", Exception("PermissionError", OsText))
                    /\ fs' = fs
       ELSE /\ pc' = "L_end"
            /\ UNCHANGED <<fs, exc, render_error_message, stages, failures>>
    /\ UNCHANGED <<prog, database, graphviz_found, skip_render, conn, dependencies,
                   dependencies_fetched, dot_file_created, pending, lin_ret,
                   render_invoked>>
    /\ UNCHANGED <<exportVars, unitVars>>

\* the try block ran to its end: control falls into the finally block
generate_lineage_end_try ==
    /\ UNCHANGED failures
    /\ prog = "lineage" /\ pc = "L_end"
    /\ pending' = "fall"
    /\ pc' = "finally"
    /\ UNCHANGED <<prog, database, graphviz_found, skip_render, conn, exc, dependencies,
                   dependencies_fetched, dot_file_created, render_error_message,
                   lin_ret, fs, stages, render_invoked>>
    /\ UNCHANGED <<exportVars, unitVars>>

\* lines 172-182: the except clause; an exception of another class passes it
generate_lineage_except ==
    /\ UNCHANGED failures
    /\ prog = "lineage" /\ pc = "except"
    /\ IF isinstance(exc, {"ConnectionError", "RuntimeError", "pyodbc.Error"})
       THEN /\ dependencies_fetched' =
                  IF isinstance(exc, {"RuntimeError"}) /\ ContainsFetchDependencies(StrOf(exc))
                  THEN FALSE
                  ELSE IF isinstance(exc, {"ConnectionError"}) THEN FALSE
                  ELSE dependencies_fetched
            /\ exc' = NoExc
            /\ pending' = "fall"
       ELSE /\ pending' = "raise"
            /\ UNCHANGED <<exc, dependencies_fetched>>
    /\ pc' = "finally"
    /\ UNCHANGED <<prog, database, graphviz_found, skip_render, conn, dependencies,
                   dot_file_created, render_error_message, lin_ret, fs, stages,
                   render_invoked>>
    /\ UNCHANGED <<exportVars, unitVars>>

\* Mutant: conn.close() stands at the end of the try block instead of in a
\* finally block, so it runs only when the try block runs to its end.
generate_lineage_finally_close_in_try ==
    /\ UNCHANGED failures
    /\ prog = "lineage" /\ pc = "finally"
    /\ IF /\ conn # "None"
          /\ pending = "fall"
          /\ \A i \in 1..Len(failures) : failures[i][1] \in {"render", "resave"}
       THEN /\ conn' = "closed"
            /\ stages' = Append(stages, "Closed")
       ELSE UNCHANGED <<conn, stages>>
    /\ pc' = CASE pending = "return" -> "returned"
               [] pending = "raise" -> "raised"
               [] pending = "fall" -> "L_return"
    /\ UNCHANGED <<prog, database, graphviz_found, skip_render, exc, dependencies,
                   dependencies_fetched, dot_file_created, render_error_message,
                   pending, lin_ret, fs, render_invoked>>
    /\ UNCHANGED <<exportVars, unitVars>>

\* lines 183-186: the finally block, then what it resumes (the early return
\* of line 132, the exception that passed the except clause, or line 188)
generate_lineage_finally ==
    /\ UNCHANGED failures
    /\ prog = "lineage" /\ pc = "finally"
    /\ IF conn # "None"
       THEN /\ conn' = "closed"
            /\ stages' = Append(stages, "Closed")
       ELSE UNCHANGED <<conn, stages>>
    /\ pc' = CASE pending = "return" -> "returned"
               [] pending = "raise" -> "raised"
               [] pending = "fall" -> "L_return"
    /\ UNCHANGED <<prog, database, graphviz_found, skip_render, exc, dependencies,
                   dependencies_fetched, dot_file_created, render_error_message,
                   pending, lin_ret, fs, render_invoked>>
    /\ UNCHANGED <<exportVars, unitVars>>

\* line 188
generate_lineage_return ==
    /\ UNCHANGED failures
    /\ prog = "lineage" /\ pc = "L_return"
    /\ lin_ret' = <<dependencies_fetched, dot_file_created, render_error_message>>
    /\ pc' = "returned"
    /\ UNCHANGED <<prog, database, graphviz_found, skip_render, conn, exc, dependencies,
                   dependencies_fetched, dot_file_created, render_error_message,
                   pending, fs, stages, render_invoked>>
    /\ UNCHANGED <<exportVars, unitVars>>

generate_lineage ==
    \/ generate_lineage_call
    \/ generate_lineage_connect
    \/ fetch_dependencies
    \/ generate_lineage_check
    \/ create_lineage_graph_step
    \/ generate_lineage_mkdir
    \/ generate_lineage_save
    \/ generate_lineage_render
    \/ generate_lineage_resave
    \/ generate_lineage_end_try
    \/ generate_lineage_except
    \/ generate_lineage_finally
    \/ generate_lineage_return

(***************************************************************************)
(* export_schema (core.py:154-180) with fetch_objects, fetch_tables and    *)
(* save_definitions                                                        *)
(***************************************************************************)
\* the three calls of lines 161, 164, 167, in program order
Categories == <<"sprocs", "views", "tables">>
subdir == Categories[cat]
create_placeholders == subdir = "tables"

\* The rows a schema-export query may return: (schema, name, definition);
\* a catalog query returns each (schema, name) once.
ObjNames == {<<"a", " ">>, <<"a", "_">>}
Definitions == {None, <<" ", "CREATE", " ">>}
ObjRows == {<<<<"dbo">>, n, d>> : n \in ObjNames, d \in Definitions}
ObjLists ==
    {l \in UNION {[1..n -> ObjRows] : n \in 0..MaxObjs} :
        \A i, j \in 1..Len(l) : i # j => l[i][2] # l[j][2]}

\* str.strip() on a text given as a sequence of tokens
RECURSIVE lstrip(_)
lstrip(t) == IF t # <<>> /\ Head(t) = " " THEN lstrip(Tail(t)) ELSE t
RECURSIVE rstrip(_)
rstrip(t) == IF t # <<>> /\ t[Len(t)] = " " THEN rstrip(SubSeq(t, 1, Len(t) - 1)) ELSE t
strip(t) == rstrip(lstrip(t))

\* core.py:124-126
safe_object_name(name) ==
    [i \in 1..Len(name) |-> IF isalnum(name[i]) \/ name[i] \in {".", "_"} THEN name[i] ELSE "_"]
file_name(item) == item[1] \o <<".">> \o safe_object_name(item[2]) \o <<".sql">>
output_path == Join(output_dir, <<subdir>>)
file_path(item) == Join(output_path, file_name(item))

\* core.py:128-141
content(item) ==
    IF ~create_placeholders
    THEN IF item[3] # None
         THEN strip(item[3]) \o <<"\nGO">>
         ELSE <<"-- No definition found for ">> \o item[1] \o <<".">> \o item[2] \o <<"\nGO">>
    ELSE <<"-- Placeholder for table ">> \o item[1] \o <<".">> \o item[2]
            \o <<"\n-- Definition needs to be scripted separately.\nGO">>

\* the call: lines 154-156
export_schema_call ==
    /\ UNCHANGED failures
    /\ pc = "idle"
    /\ prog' = "export"
    /\ conn' = "None"
    /\ pc' = "E_connect"
    /\ UNCHANGED <<database, graphviz_found, exc, pending, fs>>
    /\ UNCHANGED <<lineageVars, unitVars>>
    /\ UNCHANGED <<exportVars, unitVars>>

\* line 158
export_schema_connect ==
    /\ prog = "export" /\ pc = "E_connect"
    /\ get_db_connection("E_if")
    /\ UNCHANGED <<prog, database, graphviz_found, pending, fs>>
    /\ UNCHANGED <<lineageVars, unitVars>>
    /\ UNCHANGED <<exportVars, unitVars>>

\* line 159: a connection object is truthy; were it not, control would fall
\* out of the try block and the function would return None
export_schema_if ==
    /\ UNCHANGED failures
    /\ prog = "export" /\ pc = "E_if"
    /\ IF conn # "None"
       THEN /\ cat' = 1
            /\ pc' = "E_cursor"
            /\ UNCHANGED pending
       ELSE /\ pending' = "fall"
            /\ pc' = "finally"
            /\ UNCHANGED cat
    /\ UNCHANGED <<prog, database, graphviz_found, conn, exc, fs, exp_ret, objects,
                   idx, catlog>>
    /\ UNCHANGED <<lineageVars, unitVars>>

\* fetch_objects line 44 / fetch_tables line 91: conn.cursor() stands before
\* the try block, so a pyodbc.Error it raises leaves the function
fetch_cursor ==
    /\ prog = "export" /\ pc = "E_cursor"
    /\ \E ok \in BOOLEAN :
        IF ok
        THEN /\ pc' = "E_query"
             /\ UNCHANGED <<exc, catlog, failures>>
        ELSE /\ Raise("cursor", Exception("pyodbc.Error", DriverText))
             /\ catlog' = Append(catlog, <<subdir, "raised">>)
             /\ pc' = "except"
    /\ UNCHANGED <<prog, database, graphviz_found, conn, pending, fs, exp_ret, cat,
                   objects, idx>>
    /\ UNCHANGED <<lineageVars, unitVars>>

\* what follows a category: the next call, or lines 169-170 (return True)
export_schema_next ==
    IF cat < Len(Categories)
    THEN /\ cat' = cat + 1
         /\ pc' = "E_cursor"
         /\ UNCHANGED <<exp_ret, pending>>
    ELSE /\ exp_ret' = "True"
         /\ pending' = "return"
         /\ pc' = "finally"
         /\ cat' = cat

\* Mutant: the pyodbc.Error of a category's query is logged and re-raised.
fetch_query_reraise ==
    /\ prog = "export" /\ pc = "E_query"
    /\ \E ok \in BOOLEAN :
        IF ok
        THEN /\ \E rows \in ObjLists : objects' = rows
             /\ pc' = "E_mkdir"
             /\ UNCHANGED <<catlog, cat, exp_ret, pending, failures, exc>>
        ELSE /\ objects' = <<>>
             /\ catlog' = Append(catlog, <<subdir, "query_error">>)
             /\ Raise("query", Exception("pyodbc.Error", DriverText))
             /\ pc' = "except"
             /\ UNCHANGED <<cat, exp_ret, pending>>
    /\ UNCHANGED <<prog, database, graphviz_found, conn, fs, idx>>
    /\ UNCHANGED <<lineageVars, unitVars>>

\* fetch_objects lines 73-87 / fetch_tables lines 99-110 up to the call of
\* save_definitions: execute and fetchall; pyodbc.Error is caught, logged and
\* answered with an empty list, and the caller goes on
fetch_query ==
    /\ prog = "export" /\ pc = "E_query"
    /\ \E ok \in BOOLEAN :
        IF ok
        THEN /\ \E rows \in ObjLists : objects' = rows
             /\ pc' = "E_mkdir"
             /\ UNCHANGED <<catlog, cat, exp_ret, pending, failures>>
        ELSE /\ objects' = <<>>
             /\ failures' = Append(failures, <<"query", Exception("pyodbc.Error", DriverText)>>)
             /\ catlog' = Append(catlog, <<subdir, "query_error">>)
             /\ export_schema_next
    /\ UNCHANGED <<prog, database, graphviz_found, conn, exc, fs, idx>>
    /\ UNCHANGED <<lineageVars, unitVars>>

\* save_definitions lines 116-119; an OSError of mkdir is no pyodbc.Error and
\* leaves fetch_objects/fetch_tables
save_definitions_mkdir ==
    /\ prog = "export" /\ pc = "E_mkdir"
    /\ \E ok \in BOOLEAN :
        IF ok
        THEN /\ fs' = [p \in DOMAIN fs \cup {output_dir, output_path} |->
                          IF p \in DOMAIN fs THEN fs[p] ELSE "dir"]
             /\ idx' = 1
             /\ pc' = "E_item"
             /\ UNCHANGED <<exc, catlog, failures>>
        ELSE /\ Raise("save_mkdir", Exception("PermissionError", OsText))
             /\ catlog' = Append(catlog, <<subdir, "raised">>)
             /\ pc' = "except"
             /\ UNCHANGED <<fs, idx>>
    /\ UNCHANGED <<prog, database, graphviz_found, conn, pending, exp_ret, cat,
                   objects>>
    /\ UNCHANGED <<lineageVars, unitVars>>

\* save_definitions lines 120-149, one item of the loop: the file is written;
\* or open/write raises IOError, which is caught (the file may have been
\* created already); or the text cannot be encoded, which is no IOError
save_definitions_item ==
    /\ prog = "export" /\ pc = "E_item"
    /\ idx <= Len(objects)
    /\ \E outcome \in {"written", "io_error", "other_error"} :
        CASE outcome = "written" ->
                /\ fs' = WriteFile(file_path(objects[idx]), content(objects[idx]))
                /\ idx' = idx + 1
                /\ UNCHANGED <<pc, exc, catlog, failures>>
          [] outcome = "io_error" ->
                /\ \E partial \in BOOLEAN :
                     fs' = IF partial THEN WriteFile(file_path(objects[idx]), <<>>) ELSE fs
                /\ idx' = idx + 1
                /\ failures' = Append(failures, <<"write", Exception("PermissionError", OsText)>>)
                /\ UNCHANGED <<pc, exc, catlog>>
          [] outcome = "other_error" ->
                /\ fs' = WriteFile(file_path(objects[idx]), <<>>)
                /\ Raise("write", Exception("ValueError", <<"'utf-8' codec can't encode character">>))
                /\ catlog' = Append(catlog, <<subdir, "raised">>)
                /\ pc' = "except"
                /\ idx' = idx
    /\ UNCHANGED <<prog, database, graphviz_found, conn, pending, exp_ret, cat,
                   objects>>
    /\ UNCHANGED <<lineageVars, unitVars>>

\* save_definitions line 150 and the return of fetch_objects (82, 87) or
\* fetch_tables (105, 110)
fetch_return ==
    /\ UNCHANGED failures
    /\ prog = "export" /\ pc = "E_item"
    /\ idx > Len(objects)
    /\ catlog' = Append(catlog, <<subdir, "completed">>)
    /\ export_schema_next
    /\ UNCHANGED <<prog, database, graphviz_found, conn, exc, fs, objects, idx>>
    /\ UNCHANGED <<lineageVars, unitVars>>

\* Mutant: only ConnectionError is handled (the handler of line 174 is
\* missing).
export_schema_except_connection_only ==
    /\ UNCHANGED failures
    /\ prog = "export" /\ pc = "except"
    /\ IF isinstance(exc, {"ConnectionError"})
       THEN /\ exp_ret' = "False"
            /\ pending' = "return"
            /\ exc' = NoExc
       ELSE /\ pending' = "raise"
            /\ UNCHANGED <<exp_ret, exc>>
    /\ pc' = "finally"
    /\ UNCHANGED <<prog, database, graphviz_found, conn, fs, cat, objects, idx,
                   catlog>>
    /\ UNCHANGED <<lineageVars, unitVars>>

\* lines 171-176: both handlers return False
export_schema_except ==
    /\ UNCHANGED failures
    /\ prog = "export" /\ pc = "except"
    /\ IF isinstance(exc, {"ConnectionError"})
       THEN /\ exp_ret' = "False"
            /\ pending' = "return"
            /\ exc' = NoExc
       ELSE IF isinstance(exc, {"Exception"})
       THEN /\ exp_ret' = "False"
            /\ pending' = "return"
            /\ exc' = NoExc
       ELSE /\ pending' = "raise"
            /\ UNCHANGED <<exp_ret, exc>>
    /\ pc' = "finally"
    /\ UNCHANGED <<prog, database, graphviz_found, conn, fs, cat, objects, idx,
                   catlog>>
    /\ UNCHANGED <<lineageVars, unitVars>>

\* lines 177-180: the finally block, then what it resumes; falling off the
\* end of the function returns None
export_schema_finally ==
    /\ UNCHANGED failures
    /\ prog = "export" /\ pc = "finally"
    /\ conn' = IF conn # "None" THEN "closed" ELSE conn
    /\ IF pending = "fall"
       THEN /\ exp_ret' = "None"
            /\ pc' = "returned"
       ELSE /\ pc' = IF pending = "raise" THEN "raised" ELSE "returned"
            /\ UNCHANGED exp_ret
    /\ UNCHANGED <<prog, database, graphviz_found, exc, pending, fs, cat, objects,
                   idx, catlog>>
    /\ UNCHANGED <<lineageVars, unitVars>>

export_schema ==
    \/ export_schema_call
    \/ export_schema_connect
    \/ export_schema_if
    \/ fetch_cursor
    \/ fetch_query
    \/ save_definitions_mkdir
    \/ save_definitions_item
    \/ fetch_return
    \/ export_schema_except
    \/ export_schema_finally

Next == generate_lineage \/ export_schema

Spec == Init /\ [][Next]_vars

(***************************************************************************)
(* The functions the orchestrators are built from, each called on its own. *)
(* While one of them runs, the variables of the others keep the values     *)
(* below.                                                                  *)
(***************************************************************************)
orchestratorIdle ==
    /\ conn = "None"
    /\ exc = NoExc
    /\ dependencies_fetched = FALSE
    /\ dot_file_created = FALSE
    /\ render_error_message = None
    /\ pending = "fall"
    /\ lin_ret = NoRet
    /\ exp_ret = "unset"
    /\ stages = <<>>
    /\ render_invoked = FALSE
    /\ graphviz_found = FALSE
    /\ cat = 0
    /\ objects = <<>>
    /\ idx = 0
    /\ catlog = <<>>
    /\ failures = <<>>
graphIdle ==
    /\ nodes = {}
    /\ dot = <<>>
    /\ dep_idx = 0
    /\ run = 0
    /\ first_source = None
sanitizeIdle ==
    /\ raw_name = <<>>
    /\ safe_name = None
connectIdle ==
    /\ server = <<>>
    /\ username = <<"NoneType">>
    /\ password = <<"NoneType">>
    /\ conn_str = <<>>
    /\ connection_string = None
releaseIdle ==
    /\ status_stdout = <<>>
    /\ current_version = None
    /\ suggested_version = None
    /\ new_version = None
    /\ confirm = <<>>
    /\ pyproject = <<>>
    /\ mutations = <<>>
    /\ exit_code = 0
orchestratorVars == <<conn, exc, dependencies_fetched, dot_file_created,
                      render_error_message, pending, lin_ret, exp_ret, stages,
                      render_invoked, graphviz_found, cat, objects, idx, catlog,
                      failures>>

(***************************************************************************)
(* sanitize_for_filename (cli.py:12-21) called on one argument.            *)
(***************************************************************************)
SanitizeChars == {"a", "_", " ", "\t", "/", ":"}
SanitizeExample == <<"M", "y", " ", "D", "a", "t", "a", "/", "B", "a", "s", "e", ":", "1">>
RawNames == UNION {[1..n -> SanitizeChars] : n \in 0..MaxNameLen} \cup {SanitizeExample}

InitSanitize ==
    /\ prog = "sanitize"
    /\ pc = "S_call"
    /\ raw_name \in RawNames
    /\ safe_name = None
    /\ database = <<>>
    /\ skip_render = FALSE
    /\ dependencies = <<>>
    /\ fs = <<>>
    /\ orchestratorIdle /\ graphIdle /\ connectIdle /\ releaseIdle

sanitize_for_filename_call ==
    /\ prog = "sanitize" /\ pc = "S_call"
    /\ safe_name' = sanitize_for_filename(raw_name)
    /\ pc' = "S_return"
    /\ UNCHANGED <<prog, raw_name, database, skip_render, dependencies, fs>>
    /\ UNCHANGED <<orchestratorVars, graphVars, connectVars, releaseVars>>

NextSanitize == sanitize_for_filename_call

SpecSanitize == InitSanitize /\ [][NextSanitize]_vars

(***************************************************************************)
(* create_lineage_graph (lineage.py:68-115) and the saving of its result   *)
(* (lineage.py:137-149), row by row.  A row is the 6-tuple                 *)
(* (ref_schema, ref_obj, ref_type, target_schema, target_obj, target_type) *)
(* of fetch_dependencies: ref is the referencing (dependent) object,       *)
(* target the referenced (depended-upon) one.  Names are sequences of      *)
(* characters; the query's ISNULL and joins leave no column None.          *)
(***************************************************************************)
type_styles ==
    [t \in {"USER_TABLE", "VIEW", "SQL_STORED_PROCEDURE", "SQL_TABLE_VALUED_FUNCTION",
            "SQL_SCALAR_FUNCTION", "SQL_INLINE_TABLE_VALUED_FUNCTION"} |->
        CASE t = "USER_TABLE" -> [shape |-> "box", fillcolor |-> "lightblue"]
          [] t = "VIEW" -> [shape |-> "ellipse", fillcolor |-> "lightgoldenrodyellow"]
          [] t = "SQL_STORED_PROCEDURE" -> [shape |-> "cds", fillcolor |-> "lightcoral"]
          [] OTHER -> [shape |-> "invhouse", fillcolor |-> "lightgreen"]]
default_style == [shape |-> "component", fillcolor |-> "lightgrey"]
\* type_styles.get(type, default_style)
style(type) == IF type \in DOMAIN type_styles THEN type_styles[type] ELSE default_style

\* line 99: f"{target_schema or '?'}.{target_obj}"
target_full_name(dep) == (IF dep[4] = <<>> THEN <<"?">> ELSE dep[4]) \o <<".">> \o dep[5]
\* line 100: f"{ref_schema}.{ref_obj}"
ref_full_name(dep) == dep[1] \o <<".">> \o dep[2]
\* lines 105, 109: f"{schema}.\\n{obj}"
label(schema, obj) == schema \o <<".", "\\n">> \o obj

\* Mutant: the node is added without looking at the set of nodes.
add_node_always(g, key, lbl, type) ==
    [nodes |-> g.nodes \cup {key},
     dot |-> Append(g.dot, <<"node", key, lbl, style(type)>>)]

\* lines 103-106 and 107-110: add the node if it is not already added
add_node(g, key, lbl, type) ==
    IF key \notin g.nodes
    THEN [nodes |-> g.nodes \cup {key},
          dot |-> Append(g.dot, <<"node", key, lbl, style(type)>>)]
    ELSE g

\* Mutant: the referencing object's node is added before the referenced one's.
add_nodes_ref_first(g, dep) ==
    add_node(add_node(g, ref_full_name(dep), label(dep[1], dep[2]), dep[3]),
             target_full_name(dep), label(dep[4], dep[5]), dep[6])

\* lines 103-110: the referenced object's node, then the referencing one's
add_nodes(g, dep) ==
    add_node(add_node(g, target_full_name(dep), label(dep[4], dep[5]), dep[6]),
             ref_full_name(dep), label(dep[1], dep[2]), dep[3])

\* Mutant: the edge points from the referencing object to the referenced one.
edge_reversed(dep) == <<"edge", ref_full_name(dep), target_full_name(dep)>>

\* line 113: dot.edge(target_full_name, ref_full_name)
edge(dep) == <<"edge", target_full_name(dep), ref_full_name(dep)>>

\* dot_graph.save writes the source of the graph: comment, name and body
source(db, body) == <<<<"// Data Lineage for ">> \o db,
                      <<"digraph ">> \o sanitized_db_name(db) \o <<"_lineage">>,
                      body>>

\* the objects of the catalog as the query reports them: (schema, name, type_desc)
GraphObjs == {<<<<"a">>, <<"a", ".", "a">>, "VIEW">>,
              <<<<"a", ".", "a">>, <<"a">>, "USER_TABLE">>,
              <<<<"a">>, <<"b">>, "USER_TABLE">>,
              <<<<"a">>, <<"b">>, "VIEW">>,
              <<<<"b">>, <<"a">>, "VIEW">>}
DepTuples == {<<r[1], r[2], r[3], t[1], t[2], t[3]>> : r \in GraphObjs, t \in GraphObjs}
ExampleDep == <<<<"dbo">>, <<"OrdersView">>, "VIEW", <<"dbo">>, <<"Orders">>, "USER_TABLE">>
\* generate_lineage returns before the build on an empty list (lines 130-132)
GraphDepLists == UNION {[1..n -> DepTuples] : n \in 1..MaxRows} \cup {<<ExampleDep>>}

InitGraph ==
    /\ prog = "graph"
    /\ pc = "G_call"
    /\ database = <<"a", " ">>
    /\ skip_render = TRUE
    /\ dependencies \in GraphDepLists
    /\ fs = <<>>
    /\ graphIdle
    /\ orchestratorIdle /\ sanitizeIdle /\ connectIdle /\ releaseIdle

\* lines 71-92: a new Digraph and a new set of nodes
create_lineage_graph_call ==
    /\ prog = "graph" /\ pc = "G_call"
    /\ nodes' = {}
    /\ dot' = <<>>
    /\ dep_idx' = 1
    /\ run' = run + 1
    /\ pc' = "G_loop"
    /\ UNCHANGED <<prog, database, skip_render, dependencies, fs, first_source>>
    /\ UNCHANGED <<orchestratorVars, sanitizeVars, connectVars, releaseVars>>

\* lines 94-113: one pass of the loop
create_lineage_graph_dep ==
    /\ prog = "graph" /\ pc = "G_loop"
    /\ dep_idx <= Len(dependencies)
    /\ LET dep == dependencies[dep_idx]
           g == add_nodes([nodes |-> nodes, dot |-> dot], dep)
       IN  /\ nodes' = g.nodes
           /\ dot' = Append(g.dot, edge(dep))
    /\ dep_idx' = dep_idx + 1
    /\ UNCHANGED <<prog, pc, database, skip_render, dependencies, fs, run, first_source>>
    /\ UNCHANGED <<orchestratorVars, sanitizeVars, connectVars, releaseVars>>

\* line 115: return dot
create_lineage_graph_return ==
    /\ prog = "graph" /\ pc = "G_loop"
    /\ dep_idx > Len(dependencies)
    /\ pc' = "G_save"
    /\ UNCHANGED <<prog, database, skip_render, dependencies, fs>>
    /\ UNCHANGED <<orchestratorVars, graphVars, sanitizeVars, connectVars, releaseVars>>

\* Mutant: the file is opened for appending.
dot_graph_save_append ==
    /\ prog = "graph" /\ pc = "G_save"
    /\ LET old == IF exists(dot_filename(database)) THEN fs[dot_filename(database)] ELSE <<>>
           written == old \o source(database, dot)
       IN  /\ fs' = [p \in DOMAIN fs \cup {output_dir, dot_filename(database)} |->
                       IF p = dot_filename(database) THEN written
                       ELSE IF p = output_dir THEN "dir" ELSE fs[p]]
           /\ first_source' = IF run = 1 THEN written ELSE first_source
    /\ pc' = "G_saved"
    /\ UNCHANGED <<prog, database, skip_render, dependencies, nodes, dot, dep_idx, run>>
    /\ UNCHANGED <<orchestratorVars, sanitizeVars, connectVars, releaseVars>>

\* lines 138-149: make the output directory and save the DOT source (the
\* file is written anew); with skip_render nothing else touches the file
dot_graph_save ==
    /\ prog = "graph" /\ pc = "G_save"
    /\ LET written == source(database, dot)
       IN  /\ fs' = [p \in DOMAIN fs \cup {output_dir, dot_filename(database)} |->
                       IF p = dot_filename(database) THEN written
                       ELSE IF p = output_dir THEN "dir" ELSE fs[p]]
           /\ first_source' = IF run = 1 THEN written ELSE first_source
    /\ pc' = "G_saved"
    /\ UNCHANGED <<prog, database, skip_render, dependencies, nodes, dot, dep_idx, run>>
    /\ UNCHANGED <<orchestratorVars, sanitizeVars, connectVars, releaseVars>>

\* generate_lineage is called a second time with the same arguments
generate_lineage_again ==
    /\ prog = "graph" /\ pc = "G_saved"
    /\ run = 1
    /\ pc' = "G_call"
    /\ UNCHANGED <<prog, database, skip_render, dependencies, fs>>
    /\ UNCHANGED <<orchestratorVars, graphVars, sanitizeVars, connectVars, releaseVars>>

NextGraph ==
    \/ create_lineage_graph_call
    \/ create_lineage_graph_dep
    \/ create_lineage_graph_return
    \/ dot_graph_save
    \/ generate_lineage_again

SpecGraph == InitGraph /\ [][NextGraph]_vars

(***************************************************************************)
(* get_db_connection (core.py:10-29): the connection string.  A str is     *)
(* Str(t) with t its text, a sequence of pieces (a piece is a character or *)
(* a few of them); None is PyNone.  Formatting a str into an f-string      *)
(* copies its text, whatever it holds.                                     *)
(***************************************************************************)
PyNone == <<"NoneType">>
Str(t) == <<"str", t>>
truthy(v) == v # PyNone /\ v[2] # <<>>

RECURSIVE str_join(_, _)
\* sep.join(parts)
str_join(sep, parts) ==
    IF parts = <<>> THEN <<>>
    ELSE IF Len(parts) = 1 THEN parts[1]
    ELSE parts[1] \o sep \o str_join(sep, Tail(parts))

Servers == {<<"s">>, <<"s", ";", "UID=", "u">>}
Usernames == {PyNone, Str(<<>>), Str(<<"u">>), Str(<<"u", ";", "Trusted_Connection=", "yes">>)}
Passwords == {PyNone, Str(<<>>), Str(<<"p">>)}

InitConnect ==
    /\ prog = "connect"
    /\ pc = "C_conn_str"
    /\ server \in Servers
    /\ database \in Databases
    /\ username \in Usernames
    /\ password \in Passwords
    /\ conn_str = <<>>
    /\ connection_string = None
    /\ skip_render = FALSE
    /\ dependencies = <<>>
    /\ fs = <<>>
    /\ orchestratorIdle /\ graphIdle /\ sanitizeIdle /\ releaseIdle

\* lines 15-27: the list of key=value parts
get_db_connection_conn_str ==
    /\ prog = "connect" /\ pc = "C_conn_str"
    /\ conn_str' =
          << <<"DRIVER=", "{ODBC Driver 17 for SQL Server}">>,
             <<"SERVER=">> \o server,
             <<"DATABASE=">> \o database >>
          \o (IF truthy(username)
              THEN << <<"UID=">> \o username[2] >>
                   \o (IF password # PyNone THEN << <<"PWD=">> \o password[2] >> ELSE <<>>)
              ELSE << <<"Trusted_Connection=", "yes">> >>)
    /\ pc' = "C_join"
    /\ UNCHANGED <<prog, database, skip_render, dependencies, fs, server, username,
                   password, connection_string>>
    /\ UNCHANGED <<orchestratorVars, graphVars, sanitizeVars, releaseVars>>

\* line 29: connection_string = ';'.join(conn_str)
get_db_connection_join ==
    /\ prog = "connect" /\ pc = "C_join"
    /\ connection_string' = str_join(<<";">>, conn_str)
    /\ pc' = "C_connect"
    /\ UNCHANGED <<prog, database, skip_render, dependencies, fs, server, username,
                   password, conn_str>>
    /\ UNCHANGED <<orchestratorVars, graphVars, sanitizeVars, releaseVars>>

NextConnect == get_db_connection_conn_str \/ get_db_connection_join

SpecConnect == InitConnect /\ [][NextConnect]_vars

(***************************************************************************)
(* pypiteleport.py, the release script.  Version strings are sequences of  *)
(* characters.                                                             *)
(***************************************************************************)
DigitChars == <<"0", "1", "2", "3", "4", "5", "6", "7", "8", "9">>
isdigit(c) == \E i \in 1..Len(DigitChars) : DigitChars[i] = c
isletter(c) == c \in {"a", "b", "x"}
\* a character of the class [0-9a-zA-Z-]
isidentchar(c) == isdigit(c) \/ isletter(c) \/ c = "-"

\* the position of the first c in s, or 0
find(s, c) ==
    IF \E i \in 1..Len(s) : s[i] = c
    THEN CHOOSE i \in 1..Len(s) : s[i] = c /\ \A j \in 1..(i - 1) : s[j] # c
    ELSE 0

RECURSIVE split(_, _)
\* the pieces of s between the separators c
split(s, c) ==
    IF find(s, c) = 0 THEN <<s>>
    ELSE <<SubSeq(s, 1, find(s, c) - 1)>> \o split(SubSeq(s, find(s, c) + 1, Len(s)), c)

\* 0|[1-9]\d*
numeric_identifier(id) ==
    /\ id # <<>>
    /\ \A i \in 1..Len(id) : isdigit(id[i])
    /\ Len(id) = 1 \/ id[1] # "0"
\* 0|[1-9]\d*|\d*[a-zA-Z-][0-9a-zA-Z-]*
prerelease_identifier(id) ==
    \/ numeric_identifier(id)
    \/ /\ \A i \in 1..Len(id) : isidentchar(id[i])
       /\ \E i \in 1..Len(id) : ~isdigit(id[i])
\* [0-9a-zA-Z-]+
build_identifier(id) == id # <<>> /\ \A i \in 1..Len(id) : isidentchar(id[i])

NoMatch == <<>>
\* VERSION_REGEX.match(text): the groups of the match, or NoMatch.  The build
\* metadata starts at the first "+", the prerelease at the first "-" before
\* it; $ also matches before one newline at the end.
VERSION_REGEX_match(text) ==
    LET body == IF text # <<>> /\ text[Len(text)] = "\n"
                THEN SubSeq(text, 1, Len(text) - 1) ELSE text
        plus == find(body, "+")
        front == IF plus = 0 THEN body ELSE SubSeq(body, 1, plus - 1)
        build == IF plus = 0 THEN None ELSE SubSeq(body, plus + 1, Len(body))
        dash == find(front, "-")
        core == split(IF dash = 0 THEN front ELSE SubSeq(front, 1, dash - 1), ".")
        pre == IF dash = 0 THEN None ELSE SubSeq(front, dash + 1, Len(front))
    IN  IF /\ Len(core) = 3
           /\ \A i \in 1..3 : numeric_identifier(core[i])
           /\ dash # 0 => \A i \in 1..Len(split(pre, ".")) :
                              prerelease_identifier(split(pre, ".")[i])
           /\ plus # 0 => \A i \in 1..Len(split(build, ".")) :
                              build_identifier(split(build, ".")[i])
        THEN [major |-> core[1], minor |-> core[2], patch |-> core[3],
              prerelease |-> pre, buildmetadata |-> build]
        ELSE NoMatch

\* the value of a decimal digit
digit(c) == (CHOOSE i \in 1..Len(DigitChars) : DigitChars[i] = c) - 1
RECURSIVE int(_)
\* int(text) of a string of digits
int(text) ==
    IF text = <<>> THEN 0
    ELSE 10 * int(SubSeq(text, 1, Len(text) - 1)) + digit(text[Len(text)])
RECURSIVE str(_)
\* the decimal digits of a number, as f"{number}" formats it
str(number) ==
    IF number < 10 THEN <<DigitChars[number + 1]>>
    ELSE str(number \div 10) \o <<DigitChars[(number % 10) + 1]>>

\* lines 93-103
suggest_next_version(version_str) ==
    LET match == VERSION_REGEX_match(version_str)
    IN  IF match = NoMatch THEN None
        ELSE IF match.prerelease # <<>> \/ match.buildmetadata # <<>> THEN None
        ELSE str(int(match.major)) \o <<".">> \o str(int(match.minor)) \o <<".">>
             \o str(int(match.patch) + 1)

\* str.lower on the characters of an answer
lower(text) ==
    [i \in 1..Len(text) |->
        CASE text[i] = "Y" -> "y" [] text[i] = "N" -> "n" [] OTHER -> text[i]]

\* what pyproject.toml may hold as its version
FileVersions == {<<"0", ".", "1", ".", "0">>, <<"0", ".", "1", ".", "9">>,
                 <<"1", ".", "0", ".", "0", "-", "a">>, <<"0", "1", ".", "0">>}
\* what the user may type at the version prompt
UserInputs == {<<>>, <<"0", ".", "1", ".", "0">>, <<" ", "0", ".", "2", ".", "0", " ">>,
               <<"0", "1", ".", "1", ".", "1">>, <<"1", ".", "0">>,
               <<"1", ".", "0", ".", "0", "-", "a">>, <<"1", ".", "0", ".", "0", "+", "b">>}
\* what the user may type at the confirmation
ConfirmInputs == {<<"y">>, <<"Y">>, <<"n">>, <<>>, <<" ", "y">>, <<"y", "e", "s">>}
\* what git status --porcelain may print
StatusOutputs == {<<>>, <<" ", "M", " ", "x", "\n">>}

releaseFrame == <<prog, database, skip_render, dependencies, fs, orchestratorVars,
                  graphVars, sanitizeVars, connectVars>>

InitRelease ==
    /\ prog = "release"
    /\ pc = "R_status"
    /\ status_stdout = <<>>
    /\ current_version = None
    /\ suggested_version = None
    /\ new_version = None
    /\ confirm = <<>>
    /\ pyproject \in FileVersions
    /\ mutations = <<>>
    /\ exit_code = 0
    /\ database = <<>>
    /\ skip_render = FALSE
    /\ dependencies = <<>>
    /\ fs = <<>>
    /\ orchestratorIdle /\ graphIdle /\ sanitizeIdle /\ connectIdle

\* sys.exit(code), and the end of the process by an uncaught exception
sys_exit(code) ==
    /\ pc' = "exited"
    /\ exit_code' = code

\* lines 141-148: git status --porcelain; anything printed stops the script
main_git_status ==
    /\ prog = "release" /\ pc = "R_status"
    /\ \E ok \in BOOLEAN :
        IF ok
        THEN \E out \in StatusOutputs :
                /\ status_stdout' = out
                /\ IF name_strip(out) # <<>>
                   THEN sys_exit(1)
                   ELSE pc' = "R_branch" /\ UNCHANGED exit_code
        ELSE sys_exit(1) /\ UNCHANGED status_stdout
    /\ UNCHANGED <<current_version, suggested_version, new_version, confirm, pyproject,
                   mutations>>
    /\ UNCHANGED releaseFrame

\* lines 151-153: git rev-parse --abbrev-ref HEAD
main_git_branch ==
    /\ prog = "release" /\ pc = "R_branch"
    /\ \E ok \in BOOLEAN :
        IF ok THEN pc' = "R_version" /\ UNCHANGED exit_code ELSE sys_exit(1)
    /\ UNCHANGED <<status_stdout, current_version, suggested_version, new_version,
                   confirm, pyproject, mutations>>
    /\ UNCHANGED releaseFrame

\* lines 157 and 61-90: read the version; a missing or unreadable file and a
\* version that does not match the pattern end the script
get_current_version ==
    /\ prog = "release" /\ pc = "R_version"
    /\ \E readable \in BOOLEAN :
        IF readable /\ VERSION_REGEX_match(pyproject) # NoMatch
        THEN /\ current_version' = pyproject
             /\ pc' = "R_suggest"
             /\ UNCHANGED exit_code
        ELSE sys_exit(1) /\ UNCHANGED current_version
    /\ UNCHANGED <<status_stdout, suggested_version, new_version, confirm, pyproject,
                   mutations>>
    /\ UNCHANGED releaseFrame

\* line 161
main_suggest ==
    /\ prog = "release" /\ pc = "R_suggest"
    /\ suggested_version' = suggest_next_version(current_version)
    /\ pc' = "R_prompt"
    /\ UNCHANGED <<status_stdout, current_version, new_version, confirm, pyproject,
                   mutations, exit_code>>
    /\ UNCHANGED releaseFrame

\* lines 165-178: one pass of the prompt loop
main_prompt ==
    /\ prog = "release" /\ pc = "R_prompt"
    /\ \E typed \in UserInputs :
        LET user_input == name_strip(typed)
        IN  IF user_input = <<>> /\ suggested_version # None
            THEN /\ new_version' = suggested_version
                 /\ pc' = "R_same"
                 /\ UNCHANGED exit_code
            ELSE IF user_input # <<>>
            THEN IF VERSION_REGEX_match(user_input) # NoMatch
                 THEN /\ new_version' = user_input
                      /\ pc' = "R_same"
                      /\ UNCHANGED exit_code
                 ELSE UNCHANGED <<new_version, pc, exit_code>>
            ELSE sys_exit(0) /\ UNCHANGED new_version
    /\ UNCHANGED <<status_stdout, current_version, suggested_version, confirm,
                   pyproject, mutations>>
    /\ UNCHANGED releaseFrame

\* lines 181-185
main_same_version ==
    /\ prog = "release" /\ pc = "R_same"
    /\ IF new_version = current_version
       THEN sys_exit(0)
       ELSE pc' = "R_confirm" /\ UNCHANGED exit_code
    /\ UNCHANGED <<status_stdout, current_version, suggested_version, new_version,
                   confirm, pyproject, mutations>>
    /\ UNCHANGED releaseFrame

\* lines 188-191: anything but y (in either case) cancels
main_confirm ==
    /\ prog = "release" /\ pc = "R_confirm"
    /\ \E typed \in ConfirmInputs :
        /\ confirm' = lower(typed)
        /\ IF lower(typed) # <<"y">>
           THEN sys_exit(0)
           ELSE pc' = "R_update" /\ UNCHANGED exit_code
    /\ UNCHANGED <<status_stdout, current_version, suggested_version, new_version,
                   pyproject, mutations>>
    /\ UNCHANGED releaseFrame

\* lines 212-218: an exception leaves the try block of main.  The handler
\* takes an Exception and exits with 1; SystemExit is no Exception and ends
\* the process with its own code.
main_except(e) ==
    sys_exit(IF isinstance(e, {"Exception"}) THEN 1 ELSE StrOf(e))

\* lines 195 and 106-133: rewrite the version in pyproject.toml.  No match of
\* the version line is sys.exit(1) (line 123); a failing read or write is
\* caught (lines 128-133) and is sys.exit(1) too, the file possibly cut short.
update_pyproject_version ==
    /\ prog = "release" /\ pc = "R_update"
    /\ \E outcome \in {"ok", "no_match", "io_error"} :
        CASE outcome = "ok" ->
                /\ pyproject' = new_version
                /\ mutations' = Append(mutations, <<"update", "ok">>)
                /\ pc' = "R_add"
                /\ UNCHANGED exit_code
          [] outcome = "no_match" ->
                /\ pyproject' = pyproject
                /\ mutations' = Append(mutations, <<"update", "failed">>)
                /\ main_except(Exception("SystemExit", 1))
          [] outcome = "io_error" ->
                /\ \E cut \in BOOLEAN : pyproject' = IF cut THEN <<>> ELSE pyproject
                /\ mutations' = Append(mutations, <<"update", "failed">>)
                /\ main_except(Exception("SystemExit", 1))
    /\ UNCHANGED <<status_stdout, current_version, suggested_version, new_version,
                   confirm>>
    /\ UNCHANGED releaseFrame

\* Mutant: check=False, a command that exits non-zero is not an error.
run_command_check_false(command, next) ==
    /\ \E outcome \in {"ok", "not_found", "non_zero", "os_error"} :
        CASE outcome = "ok" ->
                /\ mutations' = Append(mutations, <<command, "ok">>)
                /\ pc' = next
                /\ UNCHANGED exit_code
          [] outcome = "not_found" ->
                /\ mutations' = Append(mutations, <<command, "failed">>)
                /\ main_except(Exception("SystemExit", 1))
          [] outcome = "non_zero" ->
                /\ mutations' = Append(mutations, <<command, "failed">>)
                /\ pc' = next
                /\ UNCHANGED exit_code
          [] outcome = "os_error" ->
                /\ mutations' = Append(mutations, <<command, "failed">>)
                /\ main_except(Exception("PermissionError", OsText))
    /\ UNCHANGED <<status_stdout, current_version, suggested_version, new_version,
                   confirm, pyproject>>
    /\ UNCHANGED releaseFrame

\* lines 36-58, called inside the try block of main: subprocess.run with
\* check=True.  FileNotFoundError and CalledProcessError are caught and are
\* sys.exit(1); any other error of subprocess.run reaches the handler of main.
run_command(command, next) ==
    /\ \E outcome \in {"ok", "not_found", "non_zero", "os_error"} :
        CASE outcome = "ok" ->
                /\ mutations' = Append(mutations, <<command, "ok">>)
                /\ pc' = next
                /\ UNCHANGED exit_code
          [] outcome = "not_found" ->
                /\ mutations' = Append(mutations, <<command, "failed">>)
                /\ main_except(Exception("SystemExit", 1))
          [] outcome = "non_zero" ->
                /\ mutations' = Append(mutations, <<command, "failed">>)
                /\ main_except(Exception("SystemExit", 1))
          [] outcome = "os_error" ->
                /\ mutations' = Append(mutations, <<command, "failed">>)
                /\ main_except(Exception("PermissionError", OsText))
    /\ UNCHANGED <<status_stdout, current_version, suggested_version, new_version,
                   confirm, pyproject>>
    /\ UNCHANGED releaseFrame

\* line 200
main_git_add == prog = "release" /\ pc = "R_add" /\ run_command("add", "R_commit")
\* line 201
main_git_commit == prog = "release" /\ pc = "R_commit" /\ run_command("commit", "R_tag")
\* line 202
main_git_tag == prog = "release" /\ pc = "R_tag" /\ run_command("tag", "R_push_branch")
\* line 203
main_git_push_branch ==
    prog = "release" /\ pc = "R_push_branch" /\ run_command("push branch", "R_push_tag")
\* line 204
main_git_push_tag ==
    prog = "release" /\ pc = "R_push_tag" /\ run_command("push tag", "R_success")

\* lines 206-210: main returns and the process ends with code 0
main_success ==
    /\ prog = "release" /\ pc = "R_success"
    /\ sys_exit(0)
    /\ UNCHANGED <<status_stdout, current_version, suggested_version, new_version,
                   confirm, pyproject, mutations>>
    /\ UNCHANGED releaseFrame

NextRelease ==
    \/ main_git_status
    \/ main_git_branch
    \/ get_current_version
    \/ main_suggest
    \/ main_prompt
    \/ main_same_version
    \/ main_confirm
    \/ update_pyproject_version
    \/ main_git_add
    \/ main_git_commit
    \/ main_git_tag
    \/ main_git_push_branch
    \/ main_git_push_tag
    \/ main_success

SpecRelease == InitRelease /\ [][NextRelease]_vars

(***************************************************************************)
(* Properties                                                              *)
(***************************************************************************)
Done == pc \in {"returned", "raised"}
Failed(steps) == \E i \in 1..Len(failures) : failures[i][1] \in steps
FailedOnlyIn(steps) == \A i \in 1..Len(failures) : failures[i][1] \in steps
Passed(stage) == \E i \in 1..Len(stages) : stages[i] = stage
\* the steps of generate_lineage whose failure leaves the try block
AbortingSteps == {"connect", "fetch", "build", "mkdir", "save"}
RenderSteps == {"render", "resave"}
NotFoundText == "Graphviz executable not found. Cannot render graph. Please install Graphviz. Error: "
\* the files and directories below a directory
Below(dir) == {p \in DOMAIN fs : Len(p) >= Len(dir) /\ SubSeq(p, 1, Len(dir)) = dir}

\* C1: in both orchestrators, a connection that get_db_connection returned is
\* closed when control is back at the caller, whether the call returned or
\* raised: no call ends with its connection open.
C1_ConnectionReleased ==
    Done => conn \in {"None", "closed"}

\* C1 witness: a later stage raised, the exception reached the caller, and
\* the connection that had been opened is closed.
C1_Witness ==
    /\ pc = "raised"
    /\ conn = "closed"
    /\ Failed({"build", "mkdir"})

\* C2 (as claimed): in generate_lineage a failure before the description file
\* is written ends the call with that error raised to the caller, not with a
\* returned status triple.
C2_FailureIsRaised ==
    (prog = "lineage" /\ Done /\ Failed(AbortingSteps))
        => /\ pc = "raised"
           /\ exc = failures[1][2]

\* C3: once the description file is written, a failure of the render step or
\* of the re-save after it never leaves generate_lineage as an exception and
\* undoes no earlier stage; the call closes the connection and returns
\* (True, True, message), the message ending in the text of the error.
C3_RenderFailureIsData ==
    (prog = "lineage" /\ Failed(RenderSteps))
        => /\ pc \notin {"raised", "except"}
           /\ exc = NoExc
           /\ dependencies_fetched /\ dot_file_created
           /\ Passed("DescriptionWritten")
           /\ pc = "returned" =>
                /\ conn = "closed"
                /\ lin_ret[1] = TRUE /\ lin_ret[2] = TRUE
                /\ lin_ret[3] # None
                /\ \E i \in 1..Len(failures) :
                      /\ failures[i][1] \in RenderSteps
                      /\ Tail(lin_ret[3]) = StrOf(failures[i][2])

\* C3 witness: the render failed with an error other than a missing
\* executable and the call has returned.
C3_Witness ==
    /\ prog = "lineage" /\ pc = "returned"
    /\ \E i \in 1..Len(failures) :
          /\ failures[i][1] = "render"
          /\ TypeOf(failures[i][2]) = "CalledProcessError"

\* C4 (as claimed): with the Graphviz executable missing, a lineage run over
\* a non-empty dependency list whose earlier stages succeed does not raise,
\* leaves the description file on disk and returns a render error that says
\* the executable was not found.
C4_MissingToolIsReported ==
    (prog = "lineage" /\ Done /\ ~graphviz_found /\ dependencies # <<>>
        /\ ~Failed(AbortingSteps))
        => /\ pc = "returned"
           /\ exists(dot_filename(database))
           /\ lin_ret[3] # None
           /\ lin_ret[3][1] = NotFoundText

\* C5: when fetch_dependencies raises, no later stage runs (no graph, no
\* output directory, no description file, no image, no render) and the
\* connection is closed when the call ends.
C5_FetchFailureStopsThePipeline ==
    (prog = "lineage" /\ Failed({"fetch"}))
        => /\ fs = <<>>
           /\ ~render_invoked
           /\ ~dot_file_created
           /\ \A i \in 1..Len(stages) : stages[i] \in {"Connected", "Closed"}
           /\ Done => conn = "closed"

\* C5 witness: the dependency query failed and the call has ended.
C5_Witness ==
    /\ prog = "lineage" /\ Done
    /\ Failed({"fetch"})
    /\ conn = "closed"

\* C6: when the connection cannot be established, export_schema returns
\* False, generate_lineage reports the dependencies as not fetched, and
\* nothing exists in the output directory: no fetch, save, write or render
\* step ran.
C6_ConnectionFailure ==
    Failed({"connect"})
        => /\ fs = <<>>
           /\ stages = <<>> /\ catlog = <<>> /\ ~render_invoked
           /\ ~dependencies_fetched
           /\ (prog = "export" /\ Done) => (pc = "returned" /\ exp_ret = "False")
           /\ (prog = "lineage" /\ pc = "returned") => lin_ret[1] = FALSE

\* C6 witness: export_schema has returned after a failed connect.
C6_Witness ==
    /\ prog = "export" /\ pc = "returned"
    /\ Failed({"connect"})

\* the runs of generate_lineage that ended with no stage failing (a render
\* that fails is the RenderFailed stage, not an abort)
C7_NoStageFailed == prog = "lineage" /\ Done /\ FailedOnlyIn({"render"})

\* C7 (as claimed): every run in which no stage fails passes through
\* Connected, DependenciesFetched, GraphBuilt, DescriptionWritten, Rendered or
\* RenderFailed, Closed, and returns descriptionFileWritten = True, also when
\* the fetch returned no dependencies.
C7_Original ==
    C7_NoStageFailed
        => /\ pc = "returned"
           /\ \E r \in {"Rendered", "RenderFailed"} :
                 stages = <<"Connected", "DependenciesFetched", "GraphBuilt",
                            "DescriptionWritten", r, "Closed">>
           /\ lin_ret[2] = TRUE

\* C7 (amended): a run in which no stage fails and the fetch returned at
\* least one dependency passes through Connected, DependenciesFetched,
\* GraphBuilt, DescriptionWritten, then (unless skip_render) Rendered or
\* RenderFailed, then Closed, and returns descriptionFileWritten = True; a
\* run whose fetch returned no dependencies goes from DependenciesFetched
\* to Closed and returns (True, False, None) with no file written.
C7_StageOrder ==
    C7_NoStageFailed
        => /\ pc = "returned"
           /\ IF dependencies = <<>>
              THEN /\ stages = <<"Connected", "DependenciesFetched", "Closed">>
                   /\ lin_ret = <<TRUE, FALSE, None>>
                   /\ fs = <<>>
              ELSE /\ lin_ret[1] = TRUE /\ lin_ret[2] = TRUE
                   /\ IF skip_render
                      THEN stages = <<"Connected", "DependenciesFetched", "GraphBuilt",
                                      "DescriptionWritten", "Closed">>
                      ELSE \E r \in {"Rendered", "RenderFailed"} :
                              stages = <<"Connected", "DependenciesFetched", "GraphBuilt",
                                         "DescriptionWritten", r, "Closed">>

\* C7 witness: a full run with a successful render has returned.
C7_Witness ==
    /\ C7_NoStageFailed
    /\ Passed("Rendered")
    /\ lin_ret # NoRet /\ lin_ret[2] = TRUE

\* C8 (as claimed): whenever generate_lineage returns descriptionFileWritten
\* = True the description file exists on disk, whatever the render step did.
C8_ReturnedFlagMeansFileExists ==
    (prog = "lineage" /\ pc = "returned" /\ lin_ret[2] = TRUE)
        => exists(dot_filename(database))

\* the categories export_schema has dealt with so far, in the order it did
C9_Order ==
    /\ Len(catlog) <= Len(Categories)
    /\ \A i \in 1..Len(catlog) : catlog[i][1] = Categories[i]

\* C9 (as claimed): the categories are processed in the order procedures,
\* views, tables, and a failure of any kind in one category leaves no file of
\* that category and does not keep the remaining categories from being
\* fetched and saved: a call that got its connection deals with all three.
C9_Original ==
    prog = "export"
        => /\ C9_Order
           /\ \A i \in 1..Len(catlog) :
                 catlog[i][2] # "completed" => Below(Join(output_dir, <<Categories[i]>>)) = {}
           /\ (Done /\ conn # "None") => Len(catlog) = Len(Categories)

\* C9 (amended): the categories are processed in the order procedures,
\* views, tables; a database-driver error raised by a category's query
\* (execute or fetchall) leaves no file or directory of that category and the
\* next category is started after it (after the last one, the call returns
\* True).
C9_QueryErrorIsContained ==
    prog = "export"
        => /\ C9_Order
           /\ \A i \in 1..Len(catlog) :
                 catlog[i][2] = "query_error"
                    => /\ Below(Join(output_dir, <<Categories[i]>>)) = {}
                       /\ pc # "except" \/ Len(catlog) > i
                       /\ IF i < Len(Categories)
                          THEN Len(catlog) > i \/ (cat = i + 1 /\ pc \in {"E_cursor", "E_query", "E_mkdir", "E_item"})
                          ELSE exp_ret = "True"

\* C9 witness: the procedures query failed and the views were still saved.
C9_Witness ==
    /\ prog = "export"
    /\ Len(catlog) >= 2
    /\ catlog[1][2] = "query_error"
    /\ catlog[2][2] = "completed"
    /\ Below(Join(output_dir, <<"views">>)) # {}

\* an exception left one of the three category steps
C10_Escaped == \E i \in 1..Len(catlog) : catlog[i][2] = "raised"

\* C10: export_schema never raises and never returns None; it returns True
\* only if the connection succeeded and the three category steps all ran to
\* their end with no exception leaving them, and False if the connection
\* failed or an exception left a step.
C10_ReturnValue ==
    prog = "export"
        => /\ pc # "raised"
           /\ pc = "returned" =>
                /\ exp_ret \in {"True", "False"}
                /\ exp_ret = "True" =>
                      (conn = "closed" /\ Len(catlog) = Len(Categories) /\ ~C10_Escaped)
                /\ (Failed({"connect"}) \/ C10_Escaped) => exp_ret = "False"

\* C10 witness: an unexpected error left a category step and the call
\* returned False.
C10_Witness ==
    /\ prog = "export" /\ pc = "returned"
    /\ C10_Escaped
    /\ exp_ret = "False"

\* C13 (as claimed): once generate_lineage has saved the description file,
\* the file is at output_dir/<S>_lineage.gv with S the database name as
\* sanitize_for_filename gives it.
C13_DescriptionPath ==
    (prog = "lineage" /\ pc = "L_render")
        => exists(Join(output_dir, sanitize_for_filename(database) \o <<"_lineage", ".gv">>))

\* the files (not the directory itself) in the category's subdirectory
C15_Files == Below(output_path) \ {output_path}

\* C15 (as claimed): when save_definitions has gone through a list of
\* objects with pairwise distinct (schema, name) and no write failed, the
\* subdirectory holds as many files as there are objects, each object's file
\* (<schema>.<object>.sql, the object name as the code makes it safe) holding
\* that object's own content.
C15_OneFilePerObject ==
    (prog = "export" /\ pc = "E_item" /\ idx > Len(objects) /\ ~Failed({"write"}))
        => /\ Cardinality(C15_Files) = Len(objects)
           /\ \A i \in 1..Len(objects) :
                 /\ exists(file_path(objects[i]))
                 /\ fs[file_path(objects[i])] = content(objects[i])


(***************************************************************************)
(* sanitize_for_filename, stated by positions instead of by recursion.     *)
(***************************************************************************)
C14_Set == {"\\", "/", "*", "?", ":", "\"", "<", ">", "|", " ", "\t", "\n"}
C14_Space == {" ", "\t", "\n"}
C14_Trimmed(s) ==
    LET solid == {i \in 1..Len(s) : s[i] \notin C14_Space}
    IN  IF solid = {} THEN <<>>
        ELSE SubSeq(s, CHOOSE i \in solid : \A j \in solid : i <= j,
                       CHOOSE i \in solid : \A j \in solid : j <= i)
\* the positions that emit a character: every kept character, and the first
\* position of every maximal run of characters of the set
C14_Collapsed(t) ==
    LET emits == {i \in 1..Len(t) : t[i] \notin C14_Set \/ i = 1 \/ t[i - 1] \notin C14_Set}
    IN  [k \in 1..Cardinality(emits) |->
            LET i == CHOOSE i \in emits : Cardinality({j \in emits : j < i}) = k - 1
            IN  IF t[i] \in C14_Set THEN "_" ELSE t[i]]
C14_Expected(s) ==
    LET c == C14_Collapsed(C14_Trimmed(s)) IN IF c = <<>> THEN <<"_">> ELSE c

\* C14: sanitize_for_filename returns its argument trimmed of leading and
\* trailing whitespace, with every maximal run of \ / * ? : " < > | and
\* whitespace replaced by one underscore, or "_" if that is empty; the result
\* is never empty, holds none of those characters, and "My Data/Base:1" gives
\* "My_Data_Base_1".
C14_Sanitized ==
    (prog = "sanitize" /\ pc = "S_return")
        => /\ safe_name = C14_Expected(raw_name)
           /\ safe_name # <<>>
           /\ \A i \in 1..Len(safe_name) : safe_name[i] \notin C14_Set
           /\ raw_name = SanitizeExample
                 => safe_name = <<"M", "y", "_", "D", "a", "t", "a", "_",
                                  "B", "a", "s", "e", "_", "1">>
           /\ raw_name = <<>> => safe_name = <<"_">>

\* a trimmed argument with a run of two invalid characters has been sanitized
C14_Witness ==
    /\ prog = "sanitize" /\ pc = "S_return"
    /\ raw_name = <<" ", "/", ":", "a">>
    /\ safe_name = <<"_", "a">>

(***************************************************************************)
(* The graph, read back from the body of the Digraph.                      *)
(***************************************************************************)
InGraph == prog = "graph" /\ pc \in {"G_loop", "G_save", "G_saved"}
Built == prog = "graph" /\ pc = "G_save"
Processed == dep_idx - 1       \* rows the loop has gone through
NodeStmts == SelectSeq(dot, LAMBDA st : st[1] = "node")
EdgeStmts == SelectSeq(dot, LAMBDA st : st[1] = "edge")
Key(schema, obj) == schema \o <<".">> \o obj

\* C11 (as claimed): the built graph has as many nodes as there are distinct
\* (schema, name) pairs in the referencing and referenced columns, and as
\* many edges as there are rows.
C11_NodeAndEdgeCounts ==
    Built =>
        LET pairs == {<<dependencies[i][1], dependencies[i][2]>> : i \in 1..Len(dependencies)}
                     \cup {<<dependencies[i][4], dependencies[i][5]>> : i \in 1..Len(dependencies)}
        IN  /\ Len(NodeStmts) = Cardinality(pairs)
            /\ Len(EdgeStmts) = Len(dependencies)

\* C12: every row processed adds exactly one edge, from the key of the
\* depended-upon (referenced) object to the key of the dependent (referencing)
\* object; the row (dbo, OrdersView, VIEW, dbo, Orders, USER_TABLE) alone gives
\* exactly the nodes dbo.Orders and dbo.OrdersView and the one edge
\* dbo.Orders -> dbo.OrdersView.
C12_EdgePerRow ==
    InGraph =>
        /\ EdgeStmts = [i \in 1..Processed |->
                          <<"edge", Key(dependencies[i][4], dependencies[i][5]),
                                    Key(dependencies[i][1], dependencies[i][2])>>]
        /\ (Built /\ dependencies = <<ExampleDep>>)
              => /\ Len(NodeStmts) = 2
                 /\ {NodeStmts[k][2] : k \in 1..2}
                      = {<<"dbo", ".", "Orders">>, <<"dbo", ".", "OrdersView">>}
                 /\ EdgeStmts = << <<"edge", <<"dbo", ".", "Orders">>,
                                             <<"dbo", ".", "OrdersView">>>> >>

\* the example row has been built into a graph
C12_Witness == Built /\ dependencies = <<ExampleDep>> /\ Len(dot) = 3

\* the order of strings, character by character (the characters of the
\* names above in code-point order)
C16_Rank(c) ==
    CASE c = "." -> 1 [] c = "?" -> 2 [] c = "Orders" -> 3 [] c = "OrdersView" -> 4
      [] c = "a" -> 5 [] c = "b" -> 6 [] c = "dbo" -> 7
RECURSIVE C16_Le(_, _)
C16_Le(s, t) ==
    IF s = <<>> THEN TRUE
    ELSE IF t = <<>> THEN FALSE
    ELSE IF Head(s) = Head(t) THEN C16_Le(Tail(s), Tail(t))
    ELSE C16_Rank(Head(s)) < C16_Rank(Head(t))

\* C16 (as claimed): the description lists all nodes, in ascending order of
\* their keys, and after them the edges in the order they were added.
C16_SortedNodesThenEdges ==
    Built =>
        /\ \A i, j \in 1..Len(dot) : (dot[i][1] = "node" /\ dot[j][1] = "edge") => i < j
        /\ \A i, j \in 1..Len(NodeStmts) : i < j => C16_Le(NodeStmts[i][2], NodeStmts[j][2])
        /\ EdgeStmts = [i \in 1..Len(dependencies) |-> edge(dependencies[i])]

\* C17: with rendering skipped, a second run over the same dependency list
\* and database name produces the content the first run produced, and the
\* description file holds after the second run what the first run wrote.
C17_SecondRunSameFile ==
    (prog = "graph" /\ pc = "G_saved" /\ run = 2)
        => /\ first_source # None
           /\ source(database, dot) = first_source
           /\ exists(dot_filename(database))
           /\ fs[dot_filename(database)] = first_source

\* a second run over two rows and three nodes has saved its file
C17_Witness ==
    /\ prog = "graph" /\ pc = "G_saved" /\ run = 2
    /\ Len(dependencies) = 2 /\ Cardinality(nodes) = 3

\* C19: after any prefix of the rows, both endpoints of every edge are in the
\* node set and were created before the edge was added, and no node key was
\* created twice.
C19_EdgesHaveNodes ==
    InGraph =>
        /\ \A k \in 1..Len(dot) :
              dot[k][1] = "edge"
                => /\ dot[k][2] \in nodes /\ dot[k][3] \in nodes
                   /\ \E i \in 1..(k - 1) : dot[i][1] = "node" /\ dot[i][2] = dot[k][2]
                   /\ \E j \in 1..(k - 1) : dot[j][1] = "node" /\ dot[j][2] = dot[k][3]
        /\ \A i, j \in 1..Len(NodeStmts) : i # j => NodeStmts[i][2] # NodeStmts[j][2]
        /\ nodes = {NodeStmts[i][2] : i \in 1..Len(NodeStmts)}

\* within the loop, after two rows, the second of which met a node that was
\* already there
C19_Witness ==
    /\ prog = "graph" /\ pc = "G_loop" /\ Processed = 2
    /\ Len(EdgeStmts) = 2 /\ Len(NodeStmts) = 3

\* the endpoints met so far, in processing order: of every row the referenced
\* object and then the referencing one, each with its key and kind
C20_Seen ==
    [j \in 1..(2 * Processed) |->
        LET d == dependencies[(j + 1) \div 2]
        IN  IF j % 2 = 1 THEN <<Key(d[4], d[5]), d[6]>> ELSE <<Key(d[1], d[2]), d[3]>>]
C20_First(key) ==
    CHOOSE j \in 1..Len(C20_Seen) :
        /\ C20_Seen[j][1] = key
        /\ \A i \in 1..(j - 1) : C20_Seen[i][1] # key

\* C20: a key met with several kinds has a single node, and the node's style
\* is the style of the kind met at the key's first occurrence in processing
\* order (the referenced side of a row before its referencing side).
C20_FirstKindWins ==
    InGraph =>
        \A j \in 1..Len(C20_Seen) :
            LET key == C20_Seen[j][1]
                made == {k \in 1..Len(NodeStmts) : NodeStmts[k][2] = key}
            IN  /\ Cardinality(made) = 1
                /\ \A k \in made : NodeStmts[k][4] = style(C20_Seen[C20_First(key)][2])

\* one row names the same key on both sides with different kinds, and its
\* node has been made
C20_Witness ==
    /\ InGraph /\ Processed >= 1
    /\ target_full_name(dependencies[1]) = ref_full_name(dependencies[1])
    /\ dependencies[1][3] = "VIEW" /\ dependencies[1][6] = "USER_TABLE"
    /\ Len(NodeStmts) = 1

\* the connection string has an attribute of this key: the key stands at the
\* start of the string or right after a separator
HasAttribute(key) ==
    \E i \in 1..Len(connection_string) :
        /\ connection_string[i] = key
        /\ i = 1 \/ connection_string[i - 1] = ";"

\* C18 (as claimed): the connection string has UID (and PWD exactly when the
\* password is not None) if and only if a username is present, and otherwise
\* Trusted_Connection=yes; it never has both UID and Trusted_Connection, and
\* never PWD without UID.
C18_Authentication ==
    (prog = "connect" /\ pc = "C_connect")
        => /\ truthy(username) <=> HasAttribute("UID=")
           /\ truthy(username) => (HasAttribute("PWD=") <=> password # PyNone)
           /\ ~truthy(username) => HasAttribute("Trusted_Connection=")
           /\ ~(HasAttribute("UID=") /\ HasAttribute("Trusted_Connection="))
           /\ HasAttribute("PWD=") => HasAttribute("UID=")

C22_TripleIsConsistent ==
    (prog = "lineage" /\ pc = "returned")
        => /\ lin_ret[2] = TRUE => lin_ret[1] = TRUE
           /\ lin_ret[3] # None => lin_ret[2] = TRUE
           /\ Failed({"connect", "fetch"}) => lin_ret[1] = FALSE

\* a run has returned a render error
C22_Witness ==
    /\ prog = "lineage" /\ pc = "returned"
    /\ lin_ret[1] = TRUE /\ lin_ret[2] = TRUE /\ lin_ret[3] # None

\* the strings, among those the run can choose from, that are versions
\* MAJOR.MINOR.PATCH[-prerelease][+build] without leading zeros
C23_Versions ==
    {<<"0", ".", "1", ".", "0">>, <<"0", ".", "1", ".", "1">>,
     <<"0", ".", "1", ".", "1", "0">>, <<"0", ".", "2", ".", "0">>,
     <<"1", ".", "0", ".", "0", "-", "a">>, <<"1", ".", "0", ".", "0", "+", "b">>}
C23_Order == <<"update", "add", "commit", "tag", "push branch", "push tag">>

\* C23: in the release script a mutating step (rewriting pyproject.toml, git
\* add, commit, tag, push) happens only after git status reported a clean
\* tree, a version was chosen that matches the version pattern and differs
\* from the current one, and the user answered y; the mutating steps run in
\* the order update, add, commit, tag, push branch, push tag; a step that
\* fails is the last one run and the process has ended with exit code 1.
C23_GuardedOrderedSteps ==
    prog = "release" =>
        /\ (mutations # <<>> \/ (current_version # None /\ pyproject # current_version))
              => /\ status_stdout = <<>>
                 /\ new_version \in C23_Versions
                 /\ new_version # current_version
                 /\ confirm = <<"y">>
                 /\ mutations # <<>>
        /\ Len(mutations) <= Len(C23_Order)
        /\ \A i \in 1..Len(mutations) :
              /\ mutations[i][1] = C23_Order[i]
              /\ mutations[i][2] = "failed"
                    => i = Len(mutations) /\ pc = "exited" /\ exit_code = 1

\* the commit failed after the file was rewritten and added, and the
\* process has ended
C23_Witness ==
    /\ prog = "release" /\ pc = "exited"
    /\ mutations = << <<"update", "ok">>, <<"add", "ok">>, <<"commit", "failed">> >>
    /\ pyproject = new_version
====
